---- MODULE Spec2Model ----
(***************************************************************************)
(* dbcontrol: a wrapper on database/sql that caps the number of active     *)
(* connections of a DB with a token channel (db.sem), reports how long a   *)
(* caller waited for a token (blockCh) and reports tokens held for longer  *)
(* than a timeout (usageTimeoutCh).                                        *)
(*                                                                         *)
(* The model follows the latest revision of the package: the DB type and   *)
(* Open() of src/limit.go and the operations of src/unnamed/part_000.      *)
(* src/sql.go and src/db.go hold an earlier revision of the same package   *)
(* (NewDB, no usage timeout, Tx without the closed flag).                  *)
(***************************************************************************)
EXTENDS Integers, FiniteSets, Sequences, Bags, TLC

\* ---------------------------------------------------------------- bounds
NCallers == 2       \* goroutines inside a call into the package at once
MaxCap == 2         \* largest value given to SetConcurrency
MaxHandles == 2     \* Rows / Row / Tx objects alive at once
MaxTimers == 2      \* usage-timeout goroutines alive at once
MaxPools == 2       \* DBs that Open() may create
MaxReports == 1     \* values the readers of the report channels take
NBlockCh == 2       \* channels the caller has to give to SetBlockDurationCh
MaxDur == 1         \* largest usage timeout given to SetUsageTimeout
MaxIdle == 2        \* largest value given to SetMaxIdleConns
NUsageCh == 2       \* channels the caller has to give to SetUsageTimeout

Pools == 1..MaxPools
BlockChans == 1..NBlockCh
\* the channels for the usage reports; 0 stands for a nil channel
UsageChans == 1..NUsageCh
\* the timeouts given to SetUsageTimeout: zero, and one that is not
Durations == {0, MaxDur}
\* a second timeout, for the calls that change it
LongDur == MaxDur + 1

VARIABLES
    concurrency,  \* limit.go: the package variable `concurrency`
    db,           \* the DB structs, by pool
    callers,      \* the goroutines inside a call into the package (a bag)
    handles,      \* the Rows, Row and Tx objects handed to callers (a bag)
    stmts,        \* the Stmt objects handed to callers
    timers        \* the usage-timeout goroutines whose cancel was sent (a bag)

vars == <<concurrency, db, callers, handles, stmts, timers>>

\* ------------------------------------------------------------- the state

\* DB struct: sem is len(db.sem) and semCap is cap(db.sem); semCap = 0
\* stands for db.sem == nil (Open only makes the channel for c > 0).
\* blockCh / usageTimeoutCh hold a channel id, 0 for nil; blockClosed are
\* the channels SetBlockDurationCh closed; blockSent and usageSent count
\* the values the readers of the two channels have taken.  maxIdle is
\* what the sql.DB under it was last given by SetMaxIdleConns, -1 while
\* it was given nothing.
ClosedDB ==
    [opened |-> FALSE, sem |-> 0, semCap |-> 0, maxConns |-> 0, maxIdle |-> -1,
     blockCh |-> 0, blockClosed |-> {}, blockSent |-> 0,
     usageTimeout |-> 0, usageTimeoutCh |-> 0, usageSent |-> 0]

SemIsNil(p) == db[p].semCap = 0

\* A goroutine started by conn() for the usage timeout: where it is (in
\* its select, "armed"; sending the stack, "sending"; ended without a
\* report, "done", or after it, "reported"), whether the channel of
\* time.After has its value, and if it got it with the cancel not yet
\* sent ("held") or after the cancel ("late"), and the channel it is
\* sending on (ch), and the usageTimeout that conn() read and gave to
\* time.After (dur).  NoTimer is what cancelUsageTimeout has to signal when
\* no goroutine was started (line 179), and after it has run.
NoTimer == [st |-> "none", fired |-> "no", ch |-> 0, dur |-> 0]
ArmedTimer == [st |-> "armed", fired |-> "no", ch |-> 0, dur |-> 0]
Running(tm) == tm.st \in {"armed", "sending"}

\* The func() that conn() returns: which DB it belongs to, whether
\* releaseLock pushes a token (db.sem != nil) and the goroutine that
\* cancelUsageTimeout signals.  The goroutine of a function that has not
\* run is kept here; once it has run the goroutine, if not ended, is in
\* the bag timers with its DB.
NoRelease == [db |-> 0, tok |-> FALSE, tmr |-> NoTimer]
\* dummyRelease, and the zero value of a release nobody holds
dummyRelease == NoRelease

\* A goroutine: where it is (idle; in conn(), blocked in the receive from
\* db.sem, "wait", past it with a token, "woken", or sending its report,
\* "send"; at the underlying call of its method, "call"; back with an
\* error, "failed"; stopped by the panic of a send on a closed channel,
\* "panic"),
\* the DB it called, the function conn() gave it and how often it has
\* called that function (nrel).  Goroutines have no names: the variable
\* callers is the bag of those that are not idle.  own is the Rows, Row
\* or Tx that the goroutine keeps to itself and brought into the call
\* (NoHandle where the objects are anybody's).
NoHandle == [kind |-> "none"]

IdleCaller ==
    [pc |-> "idle", db |-> 0, rel |-> NoRelease, nrel |-> 0, own |-> NoHandle]

Going == BagToSet(callers)
\* the goroutines that can take a step: those in a call, and an idle one
\* while fewer than NCallers are in a call
Goroutines == Going \cup (IF BagCardinality(callers) < NCallers THEN {IdleCaller} ELSE {})
Bag1(c) == IF c.pc = "idle" THEN EmptyBag ELSE SetToBag({c})
\* the bag with goroutine c having become g, with what it owns
Became(c, g) == (callers (-) Bag1(c)) (+) Bag1([g EXCEPT !.own = c.own])

\* A Rows, Row or Tx: its kind, its closed flag and release function, how
\* often the release function was called (nrel), and the state of the
\* sql object under it (ust, and uclosed once its Close was called).  The
\* objects have no names: the variable handles is the bag of them.
\* closed is read and written without a lock: inside has the methods in
\* which a goroutine has read closed as false and has the release still
\* to run (none where a method is taken as one step).
Handle(kind, release, ust) ==
    [kind |-> kind, closed |-> FALSE, release |-> release, nrel |-> 0,
     ust |-> ust, uclosed |-> FALSE, inside |-> {}]

Live == BagToSet(handles)
Room == BagCardinality(handles) < MaxHandles
With(h) == handles (+) SetToBag({h})
Without(h) == handles (-) SetToBag({h})
Changed(h, g) == (handles (-) SetToBag({h})) (+) SetToBag({g})

\* A Stmt: its db field (0 for nil) and whether the sql.Stmt under it
\* belongs to a transaction (tx).  stmts is the set of the live Stmts.
StmtOf(p, tx) == [db |-> p, tx |-> tx]

\* ---------------------------------------------------------- limit.go

\* Faulty variant: the new setting is pushed into the DBs already open.
SetConcurrencyOfOpenDBs(count) ==
    /\ concurrency' = IF count > 0 THEN count ELSE 0
    /\ db' = [p \in Pools |->
                IF db[p].opened THEN [db[p] EXCEPT !.maxConns = concurrency'] ELSE db[p]]
    /\ UNCHANGED <<callers, handles, stmts, timers>>

\* SetConcurrency(count)
SetConcurrency(count) ==
    /\ concurrency' = IF count > 0 THEN count ELSE 0
    /\ UNCHANGED <<db, callers, handles, stmts, timers>>

\* The DB that Open() returns when Concurrency() is c.
OpenedDB(c) ==
    IF c > 0
    THEN [ClosedDB EXCEPT !.opened = TRUE, !.sem = c, !.semCap = c,
                          !.maxIdle = c, !.maxConns = c]
    ELSE [ClosedDB EXCEPT !.opened = TRUE]

\* Open(driver, dsn), the underlying sql.Open having succeeded
Open(p) ==
    /\ ~db[p].opened
    /\ db' = [db EXCEPT ![p] = OpenedDB(concurrency)]
    /\ UNCHANGED <<concurrency, callers, handles, stmts, timers>>

\* db.MaxConns()
MaxConns(p) == db[p].maxConns

\* Faulty variant: the call is passed on whether db.sem is nil or not.
SetMaxIdleConnsAlways(p, n) ==
    /\ db[p].opened
    /\ db' = [db EXCEPT ![p].maxIdle = n]
    /\ UNCHANGED <<concurrency, callers, handles, stmts, timers>>

\* db.SetMaxIdleConns(n): passed on to the sql.DB only if db.sem is nil
SetMaxIdleConns(p, n) ==
    /\ db[p].opened
    /\ db' = IF SemIsNil(p) THEN [db EXCEPT ![p].maxIdle = n] ELSE db
    /\ UNCHANGED <<concurrency, callers, handles, stmts, timers>>

\* --------------------------------------------------------------- conn()

\* A goroutine blocked in <-db.sem (line 162) of DB p, and the same
\* goroutine once a sender has handed it a token
Waiter(p) == [IdleCaller EXCEPT !.pc = "wait", !.db = p]
Woken(p) ==
    [pc |-> "woken", db |-> p, nrel |-> 0, own |-> NoHandle,
     rel |-> [db |-> p, tok |-> TRUE, tmr |-> NoTimer]]

\* How many of the records of bag B are in S
BagCount(B, S) == BagCardinality([x \in S |-> B[x]])

\* The usage-timeout goroutines that have not ended
NumTimers ==
    BagCount(callers, {c \in Going : Running(c.rel.tmr)})
    + BagCount(handles, {h \in Live : Running(h.release.tmr)})
    + BagCardinality(timers)

\* conn(), lines 176-205, for a caller that holds its token (tok) or needs
\* none: usageTimeout is read under RLock; if it is not zero the timer
\* goroutine is started (NewTimer) and the function returned cancels it.
CanStartTimer(p) == db[p].usageTimeout # 0 => NumTimers < MaxTimers

\* lines 179-200: the goroutine started when usageTimeout is not zero
NewTimer(p) ==
    IF db[p].usageTimeout # 0
    THEN [ArmedTimer EXCEPT !.dur = db[p].usageTimeout]
    ELSE NoTimer

\* Faulty variant: releaseLock sends on db.sem also when db.sem is nil.
AfterConnAlwaysSending(p, tok) ==
    [pc |-> "call", db |-> p, nrel |-> 0, own |-> NoHandle,
     rel |-> [db |-> p, tok |-> TRUE,
              tmr |-> NewTimer(p)]]

\* the caller as conn() returns: it goes on to the underlying call
AfterConn(p, tok) ==
    [pc |-> "call", db |-> p, nrel |-> 0, own |-> NoHandle,
     rel |-> [db |-> p, tok |-> tok,
              tmr |-> NewTimer(p)]]

\* Faulty variant: the select has no receive case, so that every caller
\* takes the default branch, tokens in the channel or not.
ConnAlwaysDefault(c, p) ==
    /\ c.pc = "idle"
    /\ db[p].opened
    /\ IF SemIsNil(p)
       THEN /\ CanStartTimer(p)
            /\ callers' = Became(c, AfterConn(p, FALSE))
            /\ timers' = timers
            /\ db' = db
       ELSE /\ callers' = Became(c, Waiter(p))
            /\ UNCHANGED <<db, timers>>
    /\ UNCHANGED <<concurrency, handles, stmts>>

\* Faulty variant: the select goes on without a token when none is in
\* the channel.
ConnNoReceive(c, p) ==
    /\ c.pc = "idle"
    /\ db[p].opened
    /\ CanStartTimer(p)
    /\ callers' = Became(c, AfterConn(p, ~SemIsNil(p)))
    /\ timers' = timers
    /\ db' = IF db[p].sem > 0 THEN [db EXCEPT ![p].sem = @ - 1] ELSE db
    /\ UNCHANGED <<concurrency, handles, stmts>>

\* A goroutine enters a method that calls conn() on DB p (Ping, Exec,
\* Prepare, Query, QueryRow, Begin, or a method of a Stmt whose db is p;
\* conn() does the same for all of them) and reaches the select of lines
\* 157-162: with db.sem nil nothing is taken; else a token is taken if
\* one is there, and if none is the default branch is entered and the
\* goroutine blocks in the receive of line 162.
Conn(c, p) ==
    /\ c.pc = "idle"
    /\ db[p].opened
    /\ IF SemIsNil(p)
       THEN /\ CanStartTimer(p)
            /\ callers' = Became(c, AfterConn(p, FALSE))
            /\ timers' = timers
            /\ db' = db
       ELSE IF db[p].sem > 0
       THEN /\ CanStartTimer(p)
            /\ db' = [db EXCEPT ![p].sem = @ - 1]
            /\ callers' = Became(c, AfterConn(p, TRUE))
            /\ timers' = timers
       ELSE /\ callers' = Became(c, Waiter(p))
            /\ UNCHANGED <<db, timers>>
    /\ UNCHANGED <<concurrency, handles, stmts>>

\* The goroutines inside blockChMux.RLock(): those sending on blockCh,
\* and those that the send on a closed channel stopped before RUnlock.
BlockChReaders(p) == {c \in Going : c.pc \in {"send", "panic"} /\ c.db = p}

\* Faulty variant: the goroutine that waited goes on without its report.
ConnWaitSilent(c) ==
    LET p == c.db IN
    /\ c.pc = "woken"
    /\ CanStartTimer(p)
    /\ callers' = Became(c, AfterConn(p, TRUE))
    /\ UNCHANGED <<concurrency, db, handles, stmts, timers>>

\* Faulty variant: the receive from db.sem gives up, and the call returns
\* without having had a token.
ConnWaitGivingUp(c) ==
    /\ c.pc = "wait"
    /\ callers' = Became(c, IdleCaller)
    /\ UNCHANGED <<concurrency, db, handles, stmts, timers>>

\* conn(), lines 162-168: the receive from db.sem has returned with the
\* token a release handed over; under RLock, if blockCh is set the send
\* of the waited time begins, else the rest of conn() follows.  The send
\* on a closed channel panics: the goroutine goes no further.
ConnWait(c) ==
    LET p == c.db IN
    /\ c.pc = "woken"
    /\ IF db[p].blockCh # 0
       THEN /\ callers' = Became(c, [c EXCEPT !.pc =
                  IF db[p].blockCh \in db[p].blockClosed THEN "panic" ELSE "send"])
            /\ timers' = timers
       ELSE /\ CanStartTimer(p)
            /\ callers' = Became(c, AfterConn(p, TRUE))
            /\ timers' = timers
    /\ UNCHANGED <<concurrency, db, handles, stmts>>

\* conn(), lines 166-168: the send completes when the reader of the
\* channel takes the value; RUnlock, and then the rest of conn()
ConnSend(c) ==
    LET p == c.db IN
    /\ c.pc = "send"
    /\ db[p].blockSent < MaxReports
    /\ CanStartTimer(p)
    /\ db' = [db EXCEPT ![p].blockSent = @ + 1]
    /\ callers' = Became(c, AfterConn(p, TRUE))
    /\ timers' = timers
    /\ UNCHANGED <<concurrency, handles, stmts>>

\* ------------------------------------------- the function conn() returns

\* releaseLock (line 172) sends on db.sem.  A send on a channel a
\* goroutine is blocked receiving from gives the value to that goroutine
\* and leaves the buffer as it is (HandsOver); else the value goes into
\* the buffer, and the send waits while the buffer is full.
Waiters(p, cs) == {c \in BagToSet(cs) : c.pc = "wait" /\ c.db = p}
HandsOver(r) == r.tok /\ Waiters(r.db, callers) # {}

CanRelease(r) ==
    r.tok => (HandsOver(r) \/ db[r.db].sem < db[r.db].semCap)

\* releaseLock: db.sem <- true, for the channel
DbAfterRelease(r) ==
    IF r.tok /\ ~HandsOver(r) THEN [db EXCEPT ![r.db].sem = @ + 1] ELSE db

\* Faulty variant: the token of a release that finds a goroutine blocked
\* in the receive reaches nobody.
HandedToNobody(r, cs) == {cs}

\* releaseLock: db.sem <- true, for the goroutines cs: one of those
\* blocked in the receive has the token.  The set of what cs can be
\* after it, one bag for each goroutine that may be the one.
Handed(r, cs) ==
    IF HandsOver(r)
    THEN {(cs (-) SetToBag({w})) (+) SetToBag({[Woken(r.db) EXCEPT !.own = w.own]}) :
             w \in Waiters(r.db, cs)}
    ELSE {cs}

\* Faulty variant: cancelTimeoutCh is made without a buffer.
CancelTimeoutChUnbuffered == [cap |-> 0, len |-> 0]

\* line 181: cancelTimeoutCh := make(chan struct{}, 1)
CancelTimeoutCh == [cap |-> 1, len |-> 0]

\* cancelUsageTimeout, line 183: the send on cancelTimeoutCh, which the
\* function that has not run finds as it was made.  It goes on if the
\* goroutine is in its select, to receive, or the buffer has room.
CanCancel(r) ==
    r.tmr.st # "none" =>
        (r.tmr.st = "armed" \/ CancelTimeoutCh.len < CancelTimeoutCh.cap)

\* The function conn() returns (lines 202-205) runs to its end
CanRun(r) == CanRelease(r) /\ CanCancel(r)

\* cancelUsageTimeout (lines 183-186): the cancel is left in the buffer of
\* cancelTimeoutCh.  A goroutine still in its select takes it; one that
\* has left the select never looks at it.
TimersAfterRelease(r) ==
    IF Running(r.tmr)
    THEN timers (+) SetToBag({[db |-> r.db, st |-> r.tmr.st,
                               fired |-> r.tmr.fired, ch |-> r.tmr.ch,
                               dur |-> r.tmr.dur]})
    ELSE timers

\* ------------------------------------------------- the timer goroutine

\* The goroutines that have not ended, each with the one who has its
\* cancel function: a goroutine in its call, a Rows, Row or Tx, or nobody
\* any more.
TimerPlaces ==
    {<<"caller", c>> : c \in {x \in Going : Running(x.rel.tmr)}}
    \cup {<<"handle", h>> : h \in {x \in Live : Running(x.release.tmr)}}
    \cup {<<"timer", o>> : o \in BagToSet(timers)}

Tmr(w) ==
    CASE w[1] = "caller" -> w[2].rel.tmr
      [] w[1] = "handle" -> w[2].release.tmr
      [] OTHER -> [st |-> w[2].st, fired |-> w[2].fired, ch |-> w[2].ch,
                   dur |-> w[2].dur]

TmrDb(w) ==
    CASE w[1] = "caller" -> w[2].rel.db
      [] w[1] = "handle" -> w[2].release.db
      [] OTHER -> w[2].db

\* the cancel is in cancelTimeoutCh
Cancelled(w) == w[1] = "timer"

\* The goroutine at w is now as tm says; one that ended with its cancel
\* sent leaves nothing behind.
TimerBecame(w, tm) ==
    /\ callers' = IF w[1] = "caller"
                  THEN Became(w[2], [w[2] EXCEPT !.rel.tmr = tm])
                  ELSE callers
    /\ handles' = IF w[1] = "handle"
                  THEN Changed(w[2], [w[2] EXCEPT !.release.tmr = tm])
                  ELSE handles
    /\ timers' = IF w[1] = "timer"
                 THEN (timers (-) SetToBag({w[2]}))
                      (+) (IF Running(tm)
                           THEN SetToBag({[db |-> w[2].db, st |-> tm.st,
                                           fired |-> tm.fired, ch |-> tm.ch,
                                           dur |-> tm.dur]})
                           ELSE EmptyBag)
                 ELSE timers

\* The goroutines inside usageTimeoutMux.RLock(): those sending a report.
UsageReaders(p) ==
    {w \in TimerPlaces : Tmr(w).st = "sending" /\ TmrDb(w) = p}

\* line 191: the time of time.After(usageTimeout) has passed and its
\* channel has the value
TimerFire(w) ==
    /\ Tmr(w).st = "armed"
    /\ Tmr(w).fired = "no"
    /\ TimerBecame(w, [Tmr(w) EXCEPT !.fired =
                          IF Cancelled(w) THEN "late" ELSE "held"])
    /\ UNCHANGED <<concurrency, db, stmts>>

\* The goroutine past the case of time.After, on DB p
TimerExpired(w, p) ==
    IF db[p].usageTimeoutCh # 0
    THEN [Tmr(w) EXCEPT !.st = "sending", !.ch = db[p].usageTimeoutCh]
    ELSE [Tmr(w) EXCEPT !.st = "done", !.dur = 0]

\* Faulty variant: the goroutine that saw its timeout pass puts a token
\* into db.sem, taking it back from the holder.
TimerExpireRevoking(w) ==
    LET p == TmrDb(w) IN
    /\ Tmr(w).st = "armed"
    /\ Tmr(w).fired # "no"
    /\ TimerBecame(w, TimerExpired(w, p))
    /\ db' = IF db[p].sem < db[p].semCap THEN [db EXCEPT ![p].sem = @ + 1] ELSE db
    /\ UNCHANGED <<concurrency, stmts>>

\* lines 191-196: the select takes the case of time.After (it may, with
\* the cancel there too: a select with two cases ready takes either);
\* under RLock the stack is sent if a channel is set.
TimerExpire(w) ==
    LET p == TmrDb(w) IN
    /\ Tmr(w).st = "armed"
    /\ Tmr(w).fired # "no"
    /\ TimerBecame(w, TimerExpired(w, p))
    /\ UNCHANGED <<concurrency, db, stmts>>

\* line 194: the reader of usageTimeoutCh takes the report; RUnlock
TimerSend(w) ==
    LET p == TmrDb(w) IN
    /\ Tmr(w).st = "sending"
    /\ db[p].usageSent < MaxReports
    /\ db' = [db EXCEPT ![p].usageSent = @ + 1]
    /\ TimerBecame(w, [Tmr(w) EXCEPT !.st = "reported", !.ch = 0, !.dur = 0])
    /\ UNCHANGED <<concurrency, stmts>>

\* Faulty variant: the case of the cancel sends the stack too.
TimerCancelReporting(w) ==
    LET p == TmrDb(w) IN
    /\ Tmr(w).st = "armed"
    /\ Cancelled(w)
    /\ TimerBecame(w, IF db[p].usageTimeoutCh # 0
                      THEN [Tmr(w) EXCEPT !.st = "sending",
                                          !.ch = db[p].usageTimeoutCh]
                      ELSE NoTimer)
    /\ UNCHANGED <<concurrency, db, stmts>>

\* line 197: the select takes the case of the cancel
TimerCancel(w) ==
    /\ Tmr(w).st = "armed"
    /\ Cancelled(w)
    /\ TimerBecame(w, NoTimer)
    /\ UNCHANGED <<concurrency, db, stmts>>

\* ------------------------------------------------------ the two setters

\* What a caller passes to SetBlockDurationCh that passes no channel
\* twice: nil, or a channel that is neither closed nor the one in use
NewBlockChans(p) ==
    {0} \cup (BlockChans \ (db[p].blockClosed \cup {db[p].blockCh}))

\* Faulty variant: the two setters and their readers share one mutex.
SetBlockDurationChOnUsageMux(p, c) ==
    /\ db[p].opened
    /\ BlockChReaders(p) = {}
    /\ UsageReaders(p) = {}
    /\ db' = IF db[p].blockCh \in db[p].blockClosed
             THEN db
             ELSE [db EXCEPT ![p].blockCh = c,
                             ![p].blockClosed =
                                 IF db[p].blockCh # 0 THEN @ \cup {db[p].blockCh} ELSE @]
    /\ UNCHANGED <<concurrency, callers, handles, stmts, timers>>

\* SetBlockDurationCh(c): Lock waits for the readers; the previous channel
\* is closed and c is stored.  The close of a channel that is closed
\* panics, and the call leaves the DB as it was.
SetBlockDurationCh(p, c) ==
    /\ db[p].opened
    /\ BlockChReaders(p) = {}
    /\ db' = IF db[p].blockCh \in db[p].blockClosed
             THEN db
             ELSE [db EXCEPT ![p].blockCh = c,
                             ![p].blockClosed =
                                 IF db[p].blockCh # 0 THEN @ \cup {db[p].blockCh} ELSE @]
    /\ UNCHANGED <<concurrency, callers, handles, stmts, timers>>

\* Faulty variant: the setter does not wait for the goroutines that hold
\* the read lock.
SetUsageTimeoutUnlocked(p, c, timeout) ==
    /\ db[p].opened
    /\ db' = [db EXCEPT ![p].usageTimeoutCh = c,
                        ![p].usageTimeout = IF c # 0 THEN timeout ELSE 0]
    /\ UNCHANGED <<concurrency, callers, handles, stmts, timers>>

\* Faulty variant: the timeout is stored whatever the channel is.
SetUsageTimeoutKeepingTimeout(p, c, timeout) ==
    /\ db[p].opened
    /\ UsageReaders(p) = {}
    /\ db' = [db EXCEPT ![p].usageTimeoutCh = c, ![p].usageTimeout = timeout]
    /\ UNCHANGED <<concurrency, callers, handles, stmts, timers>>

\* Faulty variant: the goroutines in their select take the new timeout.
SetUsageTimeoutOfPendingTimers(p, c, timeout) ==
    /\ db[p].opened
    /\ UsageReaders(p) = {}
    /\ db' = [db EXCEPT ![p].usageTimeoutCh = c,
                        ![p].usageTimeout = IF c # 0 THEN timeout ELSE 0]
    /\ callers' = BagOfAll(LAMBDA g : IF g.rel.db = p /\ g.rel.tmr.st = "armed"
                                      THEN [g EXCEPT !.rel.tmr.dur = timeout]
                                      ELSE g, callers)
    /\ UNCHANGED <<concurrency, handles, stmts, timers>>

\* SetUsageTimeout(c, timeout): Lock waits for the readers
SetUsageTimeout(p, c, timeout) ==
    /\ db[p].opened
    /\ UsageReaders(p) = {}
    /\ db' = [db EXCEPT ![p].usageTimeoutCh = c,
                        ![p].usageTimeout = IF c # 0 THEN timeout ELSE 0]
    /\ UNCHANGED <<concurrency, callers, handles, stmts, timers>>

\* ------------------------------------------------------ one-shot calls

\* The caller after its release function ran and its method returned:
\* with the result, or with the error of the underlying call
Released(c, ok) ==
    IF ok THEN IdleCaller
    ELSE [c EXCEPT !.pc = "failed", !.nrel = @ + 1, !.rel.tmr = NoTimer]

\* Ping(): db.DB.Ping() returns, the deferred release runs
Ping(c, ok) ==
    /\ c.pc = "call"
    /\ CanRun(c.rel)
    /\ db' = DbAfterRelease(c.rel)
    /\ timers' = TimersAfterRelease(c.rel)
    /\ callers' \in Handed(c.rel, Became(c, Released(c, ok)))
    /\ UNCHANGED <<concurrency, handles, stmts>>

\* Exec()
Exec(c, ok) ==
    /\ c.pc = "call"
    /\ CanRun(c.rel)
    /\ db' = DbAfterRelease(c.rel)
    /\ timers' = TimersAfterRelease(c.rel)
    /\ callers' \in Handed(c.rel, Became(c, Released(c, ok)))
    /\ UNCHANGED <<concurrency, handles, stmts>>

\* The caller has seen the error.
Return(c) ==
    /\ c.pc = "failed"
    /\ callers' = Became(c, IdleCaller)
    /\ UNCHANGED <<concurrency, db, handles, stmts, timers>>

\* ------------------------------------------- Prepare, Query, QueryRow, Begin

\* Prepare(): the release is deferred; a Stmt bound to db on success
Prepare(c, ok) ==
    /\ c.pc = "call"
    /\ CanRun(c.rel)
    /\ db' = DbAfterRelease(c.rel)
    /\ timers' = TimersAfterRelease(c.rel)
    /\ callers' \in Handed(c.rel, Became(c, Released(c, ok)))
    /\ stmts' = IF ok THEN stmts \cup {StmtOf(c.db, FALSE)} ELSE stmts
    /\ UNCHANGED <<concurrency, handles>>

\* Faulty variant: the error is returned without the release.
QueryReturnsKeepingToken(c, ok) ==
    IF ok
    THEN /\ Room
         /\ handles' = With(Handle("rows", c.rel, "open"))
         /\ callers' = Became(c, IdleCaller)
         /\ UNCHANGED <<db, timers>>
    ELSE /\ callers' = Became(c, [c EXCEPT !.pc = "failed"])
         /\ UNCHANGED <<db, timers, handles>>

\* Query() and Stmt.Query() after conn(): on an error release and return
\* nil; else a Rows carrying the release, which the caller hands over
QueryReturns(c, ok) ==
    IF ok
    THEN /\ Room
         /\ handles' = With(Handle("rows", c.rel, "open"))
         /\ callers' = Became(c, IdleCaller)
         /\ UNCHANGED <<db, timers>>
    ELSE /\ CanRun(c.rel)
         /\ db' = DbAfterRelease(c.rel)
         /\ timers' = TimersAfterRelease(c.rel)
         /\ callers' \in Handed(c.rel, Became(c, Released(c, FALSE)))
         /\ UNCHANGED handles

\* Query()
Query(c, ok) ==
    /\ c.pc = "call"
    /\ QueryReturns(c, ok)
    /\ UNCHANGED <<concurrency, stmts>>

\* QueryRow() and Stmt.QueryRow() after conn(): a Row is returned and no
\* error, whatever the query did; the sql.Row keeps the query's error
\* ("qerr") for Scan
QueryRowReturns(c, ok) ==
    /\ Room
    /\ handles' = With(Handle("row", c.rel, IF ok THEN "open" ELSE "qerr"))
    /\ callers' = Became(c, IdleCaller)
    /\ UNCHANGED <<db, timers>>

\* QueryRow()
QueryRow(c, ok) ==
    /\ c.pc = "call"
    /\ QueryRowReturns(c, ok)
    /\ UNCHANGED <<concurrency, stmts>>

\* Faulty variant: Begin returns the error without the release.
BeginKeepingToken(c, ok) ==
    /\ c.pc = "call"
    /\ IF ok
       THEN /\ Room
            /\ handles' = With(Handle("tx", c.rel, "open"))
            /\ callers' = Became(c, IdleCaller)
            /\ UNCHANGED <<db, timers>>
       ELSE /\ callers' = Became(c, IdleCaller)
            /\ UNCHANGED <<db, timers, handles>>
    /\ UNCHANGED <<concurrency, stmts>>

\* Begin()
Begin(c, ok) ==
    /\ c.pc = "call"
    /\ IF ok
       THEN /\ Room
            /\ handles' = With(Handle("tx", c.rel, "open"))
            /\ callers' = Became(c, IdleCaller)
            /\ UNCHANGED <<db, timers>>
       ELSE /\ CanRun(c.rel)
            /\ db' = DbAfterRelease(c.rel)
            /\ timers' = TimersAfterRelease(c.rel)
            /\ callers' \in Handed(c.rel, Became(c, Released(c, FALSE)))
            /\ UNCHANGED handles
    /\ UNCHANGED <<concurrency, stmts>>

\* ---------------------------------------------------------------- Stmt

\* A goroutine in a method of Stmt s, past its first lines: with s.db not
\* nil it went through s.db.conn(); with s.db nil it called nothing and,
\* in Query and QueryRow, holds dummyRelease.
StmtReady(c, s) ==
    /\ s \in stmts
    /\ IF s.db # 0
       THEN c.pc = "call" /\ c.db = s.db
       ELSE c.pc = "idle"

\* Stmt.Exec(): the release is deferred only when s.db is not nil
StmtExec(c, s, ok) ==
    /\ StmtReady(c, s)
    /\ IF s.db # 0
       THEN /\ CanRun(c.rel)
            /\ db' = DbAfterRelease(c.rel)
            /\ timers' = TimersAfterRelease(c.rel)
            /\ callers' \in Handed(c.rel, Became(c, Released(c, ok)))
       ELSE /\ callers' = Became(c, [c EXCEPT !.pc = IF ok THEN "idle" ELSE "failed"])
            /\ UNCHANGED <<db, timers>>
    /\ UNCHANGED <<concurrency, handles, stmts>>

\* Stmt.Query()
StmtQuery(c, s, ok) ==
    /\ StmtReady(c, s)
    /\ QueryReturns(c, ok)
    /\ UNCHANGED <<concurrency, stmts>>

\* Stmt.QueryRow()
StmtQueryRow(c, s, ok) ==
    /\ StmtReady(c, s)
    /\ QueryRowReturns(c, ok)
    /\ UNCHANGED <<concurrency, stmts>>

\* Stmt.Close()
StmtClose(s) ==
    /\ s \in stmts
    /\ stmts' = stmts \ {s}
    /\ UNCHANGED <<concurrency, db, callers, handles, timers>>

\* ---------------------------------------------------------------- Rows

\* The handle after its release function ran and closed was set
HandleReleased(h) ==
    [h EXCEPT !.nrel = @ + 1, !.closed = TRUE, !.release.tmr = NoTimer]

\* What rows.Rows.Next() and rows.Rows.Err() give: more rows ("row"), the
\* end of the result set ("eof", the sql.Rows closes itself) or a failed
\* iteration ("err").  A sql.Rows that ended keeps its answer, and after
\* Close it has no rows and no error.
UnderlyingNext(h, r) ==
    IF h.uclosed THEN "eof"
    ELSE IF h.ust = "open" THEN r
    ELSE h.ust

\* Faulty variant: Next releases whenever rows.Rows.Next() gives false,
\* rows.Rows.Err() not being looked at.
RowsNextReleasingOnError(h, r) ==
    LET n == UnderlyingNext(h, r) IN
    /\ h.kind = "rows" /\ h.ust # "nil"
    /\ IF h.closed
       THEN UNCHANGED <<db, callers, handles, timers>>
       ELSE IF n # "row"
       THEN /\ CanRun(h.release)
            /\ db' = DbAfterRelease(h.release)
            /\ timers' = TimersAfterRelease(h.release)
            /\ callers' \in Handed(h.release, callers)
            /\ handles' = Changed(h, [HandleReleased(h) EXCEPT !.ust = n])
       ELSE /\ handles' = Changed(h, h)
            /\ UNCHANGED <<db, callers, timers>>
    /\ UNCHANGED <<concurrency, stmts>>

\* Rows.Next()
RowsNext(h, r) ==
    LET n == UnderlyingNext(h, r) IN
    /\ h.kind = "rows" /\ h.ust # "nil"
    /\ IF h.closed
       THEN UNCHANGED <<db, callers, handles, timers>>
       ELSE IF n = "eof"
       THEN /\ CanRun(h.release)
            /\ db' = DbAfterRelease(h.release)
            /\ timers' = TimersAfterRelease(h.release)
            /\ callers' \in Handed(h.release, callers)
            /\ handles' = Changed(h, [HandleReleased(h) EXCEPT !.ust = "eof"])
       ELSE /\ handles' = Changed(h, [h EXCEPT !.ust = IF n = "err" THEN "err" ELSE @])
            /\ UNCHANGED <<db, callers, timers>>
    /\ UNCHANGED <<concurrency, stmts>>

\* Faulty variant: Close releases whether closed is set or not.
RowsCloseNoFlag(h) ==
    /\ h.kind = "rows" /\ h.ust # "nil"
    /\ CanRun(h.release)
    /\ db' = DbAfterRelease(h.release)
    /\ timers' = TimersAfterRelease(h.release)
    /\ callers' \in Handed(h.release, callers)
    /\ handles' = Changed(h, [HandleReleased(h) EXCEPT !.uclosed = TRUE])
    /\ UNCHANGED <<concurrency, stmts>>

\* Rows.Close(): the underlying Close is called first (uclosed), then the
\* release runs unless closed is set
RowsClose(h) ==
    /\ h.kind = "rows" /\ h.ust # "nil"
    /\ IF h.closed
       THEN /\ handles' = Changed(h, [h EXCEPT !.uclosed = TRUE])
            /\ UNCHANGED <<db, callers, timers>>
       ELSE /\ CanRun(h.release)
            /\ db' = DbAfterRelease(h.release)
            /\ timers' = TimersAfterRelease(h.release)
            /\ callers' \in Handed(h.release, callers)
            /\ handles' = Changed(h, [HandleReleased(h) EXCEPT !.uclosed = TRUE])
    /\ UNCHANGED <<concurrency, stmts>>

\* ----------------------------------------------------------------- Row

\* What row.Row.Scan() leaves behind: the query's error given to the
\* caller ("qerrseen"); else the sql.Rows behind the sql.Row is closed and
\* the row was scanned ("scanned") or the scan failed ("scanerr"); a Scan
\* after that finds no rows ("norows").
UnderlyingScan(h, ok) ==
    IF h.ust \in {"qerr", "qerrseen"} THEN [h EXCEPT !.ust = "qerrseen"]
    ELSE [h EXCEPT !.uclosed = TRUE,
                   !.ust = IF h.uclosed THEN "norows"
                           ELSE IF ok THEN "scanned" ELSE "scanerr"]

\* Faulty variant: Scan releases whether closed is set or not.
RowScanNoFlag(h, ok) ==
    /\ h.kind = "row"
    /\ CanRun(h.release)
    /\ db' = DbAfterRelease(h.release)
    /\ timers' = TimersAfterRelease(h.release)
    /\ callers' \in Handed(h.release, callers)
    /\ handles' = Changed(h, HandleReleased(UnderlyingScan(h, ok)))
    /\ UNCHANGED <<concurrency, stmts>>

\* Faulty variant: Scan releases only when row.Row.Scan() gave no error.
RowScanReleasingOnSuccess(h, ok) ==
    LET g == UnderlyingScan(h, ok) IN
    /\ h.kind = "row"
    /\ IF h.closed \/ g.ust # "scanned"
       THEN /\ handles' = Changed(h, g)
            /\ UNCHANGED <<db, callers, timers>>
       ELSE /\ CanRun(h.release)
            /\ db' = DbAfterRelease(h.release)
            /\ timers' = TimersAfterRelease(h.release)
            /\ callers' \in Handed(h.release, callers)
            /\ handles' = Changed(h, HandleReleased(g))
    /\ UNCHANGED <<concurrency, stmts>>

\* Row.Scan(): row.Row.Scan() first, then the release unless closed is
\* set
RowScan(h, ok) ==
    /\ h.kind = "row"
    /\ IF h.closed
       THEN /\ handles' = Changed(h, UnderlyingScan(h, ok))
            /\ UNCHANGED <<db, callers, timers>>
       ELSE /\ CanRun(h.release)
            /\ db' = DbAfterRelease(h.release)
            /\ timers' = TimersAfterRelease(h.release)
            /\ callers' \in Handed(h.release, callers)
            /\ handles' = Changed(h, HandleReleased(UnderlyingScan(h, ok)))
    /\ UNCHANGED <<concurrency, stmts>>

\* ------------------------------------------------------------------ Tx

\* What trn.Commit() and trn.Rollback() leave behind: the first of them
\* ends the sql.Tx ("ended"), a later one is refused by it ("txdone").
UnderlyingEnd(h) ==
    [h EXCEPT !.ust = IF h.ust = "open" THEN "ended" ELSE "txdone"]

\* Faulty variant: Commit defers the release whether closed is set or not.
TxCommitNoFlag(h) ==
    /\ h.kind = "tx"
    /\ CanRun(h.release)
    /\ db' = DbAfterRelease(h.release)
    /\ timers' = TimersAfterRelease(h.release)
    /\ callers' \in Handed(h.release, callers)
    /\ handles' = Changed(h, HandleReleased(UnderlyingEnd(h)))
    /\ UNCHANGED <<concurrency, stmts>>

\* Tx.Commit(): the release is deferred unless closed is set; trn.Commit()
TxCommit(h) ==
    /\ h.kind = "tx"
    /\ IF h.closed
       THEN /\ handles' = Changed(h, UnderlyingEnd(h))
            /\ UNCHANGED <<db, callers, timers>>
       ELSE /\ CanRun(h.release)
            /\ db' = DbAfterRelease(h.release)
            /\ timers' = TimersAfterRelease(h.release)
            /\ callers' \in Handed(h.release, callers)
            /\ handles' = Changed(h, HandleReleased(UnderlyingEnd(h)))
    /\ UNCHANGED <<concurrency, stmts>>

\* Tx.Rollback()
TxRollback(h) ==
    /\ h.kind = "tx"
    /\ IF h.closed
       THEN /\ handles' = Changed(h, UnderlyingEnd(h))
            /\ UNCHANGED <<db, callers, timers>>
       ELSE /\ CanRun(h.release)
            /\ db' = DbAfterRelease(h.release)
            /\ timers' = TimersAfterRelease(h.release)
            /\ callers' \in Handed(h.release, callers)
            /\ handles' = Changed(h, HandleReleased(UnderlyingEnd(h)))
    /\ UNCHANGED <<concurrency, stmts>>

\* Tx.Exec(): passed to the sql.Tx
TxExec(h) ==
    /\ h.kind = "tx"
    /\ UNCHANGED vars

\* Tx.Query(): a Rows with dummyRelease is returned with the error, its
\* sql.Rows being nil when the query failed
TxQuery(h, ok) ==
    /\ h.kind = "tx"
    /\ ok => h.ust = "open"
    /\ Room
    /\ handles' = With(Handle("rows", dummyRelease, IF ok THEN "open" ELSE "nil"))
    /\ UNCHANGED <<concurrency, db, callers, stmts, timers>>

\* Tx.QueryRow()
TxQueryRow(h, ok) ==
    /\ h.kind = "tx"
    /\ ok => h.ust = "open"
    /\ Room
    /\ handles' = With(Handle("row", dummyRelease, IF ok THEN "open" ELSE "qerr"))
    /\ UNCHANGED <<concurrency, db, callers, stmts, timers>>

\* Faulty variant: the Stmt is bound to the DB of the transaction, as the
\* Stmt of DB.Prepare is.
TxPrepareWithDb(h, ok) ==
    /\ h.kind = "tx"
    /\ ok => h.ust = "open"
    /\ stmts' = IF ok THEN stmts \cup {StmtOf(h.release.db, TRUE)} ELSE stmts
    /\ UNCHANGED <<concurrency, db, callers, handles, timers>>

\* Tx.Prepare(): a Stmt without db
TxPrepare(h, ok) ==
    /\ h.kind = "tx"
    /\ ok => h.ust = "open"
    /\ stmts' = IF ok THEN stmts \cup {StmtOf(0, TRUE)} ELSE stmts
    /\ UNCHANGED <<concurrency, db, callers, handles, timers>>

\* Tx.Stmt(stmt): a Stmt without db
TxStmt(h, s) ==
    /\ h.kind = "tx"
    /\ s \in stmts
    /\ stmts' = stmts \cup {StmtOf(0, TRUE)}
    /\ UNCHANGED <<concurrency, db, callers, handles, timers>>

\* The caller lets go of a Rows, Row or Tx that holds nothing any more.
Drop(h) ==
    /\ h.release = dummyRelease \/ h.nrel > 0
    /\ h.inside = {}
    /\ handles' = Without(h)
    /\ UNCHANGED <<concurrency, db, callers, stmts, timers>>

\* ------------------------------ two goroutines on one Rows or one Tx

\* A method m of a Rows or Tx taken in two steps, for the goroutines that
\* call methods of one object at the same time: the read of closed, and
\* what the method does after having read it as false.

\* line 377 (Commit) or 409 (Rollback): closed is read; if it is set the
\* method is trn.Commit() or trn.Rollback() alone
TxEndTest(h, m) ==
    /\ h.kind = "tx"
    /\ m \notin h.inside
    /\ handles' = Changed(h, IF h.closed THEN UnderlyingEnd(h)
                             ELSE [h EXCEPT !.inside = @ \cup {m}])
    /\ UNCHANGED <<concurrency, db, callers, stmts, timers>>

\* lines 378-383, 410-415: trn.Commit() or trn.Rollback() returns and the
\* deferred function runs: tx.release(), tx.closed = true
TxEndDeferred(h, m) ==
    /\ h.kind = "tx"
    /\ m \in h.inside
    /\ CanRun(h.release)
    /\ db' = DbAfterRelease(h.release)
    /\ timers' = TimersAfterRelease(h.release)
    /\ callers' \in Handed(h.release, callers)
    /\ handles' = Changed(h, [HandleReleased(UnderlyingEnd(h)) EXCEPT
                                 !.inside = @ \ {m}])
    /\ UNCHANGED <<concurrency, stmts>>

TxCommitTest(h) == TxEndTest(h, "Commit")
TxCommitDeferred(h) == TxEndDeferred(h, "Commit")
TxRollbackTest(h) == TxEndTest(h, "Rollback")
TxRollbackDeferred(h) == TxEndDeferred(h, "Rollback")

\* Rows.Next(), line 253: closed is read; if it is set Next returns false
RowsNextTest(h) ==
    /\ h.kind = "rows" /\ h.ust # "nil"
    /\ "Next" \notin h.inside
    /\ handles' = Changed(h, IF h.closed THEN h
                             ELSE [h EXCEPT !.inside = @ \cup {"Next"}])
    /\ UNCHANGED <<concurrency, db, callers, stmts, timers>>

\* Rows.Next(), lines 257-264: rows.Rows.Next() returns; at the end of
\* the rows rows.release() runs and closed is set, closed not being read
\* again
RowsNextRest(h, r) ==
    LET n == UnderlyingNext(h, r)
        g == [h EXCEPT !.inside = @ \ {"Next"}] IN
    /\ h.kind = "rows"
    /\ "Next" \in h.inside
    /\ IF n = "eof"
       THEN /\ CanRun(h.release)
            /\ db' = DbAfterRelease(h.release)
            /\ timers' = TimersAfterRelease(h.release)
            /\ callers' \in Handed(h.release, callers)
            /\ handles' = Changed(h, [HandleReleased(g) EXCEPT !.ust = "eof"])
       ELSE /\ handles' = Changed(h, [g EXCEPT !.ust = IF n = "err" THEN "err" ELSE @])
            /\ UNCHANGED <<db, callers, timers>>
    /\ UNCHANGED <<concurrency, stmts>>

\* Rows.Close(), lines 268-270: rows.Rows.Close(), then closed is read
RowsCloseTest(h) ==
    /\ h.kind = "rows" /\ h.ust # "nil"
    /\ "Close" \notin h.inside
    /\ handles' = Changed(h, [h EXCEPT !.uclosed = TRUE,
                                       !.inside = IF h.closed THEN @
                                                  ELSE @ \cup {"Close"}])
    /\ UNCHANGED <<concurrency, db, callers, stmts, timers>>

\* Rows.Close(), lines 271-272: rows.release(), rows.closed = true
RowsCloseRest(h) ==
    /\ h.kind = "rows"
    /\ "Close" \in h.inside
    /\ CanRun(h.release)
    /\ db' = DbAfterRelease(h.release)
    /\ timers' = TimersAfterRelease(h.release)
    /\ callers' \in Handed(h.release, callers)
    /\ handles' = Changed(h, [HandleReleased(h) EXCEPT !.inside = @ \ {"Close"}])
    /\ UNCHANGED <<concurrency, stmts>>

\* ------------------------- the goroutine that has a Rows, Row or Tx

\* The goroutine that keeps h to itself, outside of any call, and the
\* number of goroutines that are in a call with an object like h.  Every
\* method of h is a call of that goroutine, so h is of use only while its
\* owner is not in a call of the DB (Free).
HeldBy(h) == [IdleCaller EXCEPT !.own = h]
InCallWith(h) == BagCount(callers, {c \in Going : c.own = h})
Free(h) == CopiesIn(h, handles) > InCallWith(h)

\* The owner of h calls Ping, Exec, Query, QueryRow, Prepare or Begin of
\* DB p: conn()
HolderConn(h, p) ==
    /\ Free(h)
    /\ BagCardinality(callers) < NCallers
    /\ Conn(HeldBy(h), p)

\* ---------------------------------------------------- the specification

\* The package before any call: concurrency is 0, no DB is open.
InitCfg ==
    /\ concurrency = 0
    /\ db = [p \in Pools |-> ClosedDB]
    /\ callers = EmptyBag
    /\ handles = EmptyBag
    /\ stmts = {}
    /\ timers = EmptyBag

\* One DB, opened under any concurrency setting.
Init ==
    /\ concurrency \in 0..MaxCap
    /\ db = [p \in Pools |-> IF p = 1 THEN OpenedDB(concurrency) ELSE ClosedDB]
    /\ callers = EmptyBag
    /\ handles = EmptyBag
    /\ stmts = {}
    /\ timers = EmptyBag

\* conn() and the return with an error, for every method
Admission ==
    \E c \in Goroutines :
        \/ \E p \in Pools : Conn(c, p)
        \/ ConnWait(c)
        \/ Return(c)

OneShots ==
    \E c \in Goroutines, ok \in BOOLEAN : Ping(c, ok) \/ Exec(c, ok)

Queries ==
    \E c \in Goroutines, ok \in BOOLEAN : Query(c, ok) \/ QueryRow(c, ok)

Cursors ==
    \E h \in Live :
        \/ \E r \in {"row", "eof", "err"} : RowsNext(h, r)
        \/ RowsClose(h)
        \/ \E ok \in BOOLEAN : RowScan(h, ok)
        \/ Drop(h)

Transactions ==
    \/ \E c \in Goroutines, ok \in BOOLEAN : Begin(c, ok)
    \/ \E h \in Live : TxCommit(h) \/ TxRollback(h)

\* Prepare, and the methods of the Stmts whose db field is in S
StatementsOf(S) ==
    \/ \E c \in Goroutines, ok \in BOOLEAN :
        \/ Prepare(c, ok)
        \/ \E s \in {x \in stmts : x.db \in S} :
            \/ StmtExec(c, s, ok)
            \/ StmtQuery(c, s, ok)
            \/ StmtQueryRow(c, s, ok)
    \/ \E s \in stmts : StmtClose(s)

Statements == StatementsOf(Pools)

\* the Stmts made by a Tx are used; those of Prepare are given to Tx.Stmt
TxStatements == StatementsOf({0})

TxCalls ==
    \E h \in Live :
        \/ TxExec(h)
        \/ \E ok \in BOOLEAN : TxQuery(h, ok) \/ TxQueryRow(h, ok) \/ TxPrepare(h, ok)
        \/ \E s \in stmts : TxStmt(h, s)

\* One DB with no report channel and no usage timeout set: the methods of
\* DB, of the Stmts it prepares, of Rows and Row, and Commit and Rollback,
\* in any interleaving.
Next == Admission \/ OneShots \/ Queries \/ Cursors \/ Transactions \/ Statements

Spec == Init /\ [][Next]_vars

\* The same under a fair scheduler: a goroutine whose receive from db.sem
\* has returned goes on running.
SpecLive == Spec /\ WF_vars(\E c \in Going : ConnWait(c))

\* The same DB with transactions at work: Begin, the methods of Tx, the
\* Stmts made by Tx.Prepare and Tx.Stmt and the Rows and Row they give.
NextTx == Admission \/ Transactions \/ TxCalls \/ TxStatements \/ Cursors

SpecTx == Init /\ [][NextTx]_vars

\* The steps of the timer goroutines
TimerSteps ==
    \E w \in TimerPlaces :
        TimerFire(w) \/ TimerExpire(w) \/ TimerSend(w) \/ TimerCancel(w)

\* The DB of Init as it is, or after SetUsageTimeout(c, MaxDur) was
\* called on it, c being channel 1.
InitMon ==
    /\ concurrency \in 0..MaxCap
    /\ \E c \in {0, 1} :
          db = [p \in Pools |->
                  IF p = 1
                  THEN [OpenedDB(concurrency) EXCEPT
                           !.usageTimeoutCh = c,
                           !.usageTimeout = IF c # 0 THEN MaxDur ELSE 0]
                  ELSE ClosedDB]
    /\ callers = EmptyBag
    /\ handles = EmptyBag
    /\ stmts = {}
    /\ timers = EmptyBag

\* The block reports: that DB with Ping and Exec holding the tokens, the
\* send on blockCh, SetBlockDurationCh called at any time, and the timer
\* goroutines at work.
NextMon ==
    \/ Admission \/ OneShots \/ TimerSteps
    \/ \E c \in Going : ConnSend(c)
    \/ \E p \in Pools : \E c \in NewBlockChans(p) : SetBlockDurationCh(p, c)

SpecMon == InitMon /\ [][NextMon]_vars

\* The block reports alone: the DB of Init, where no usage timeout is set
NextBlock ==
    \/ Admission \/ OneShots
    \/ \E c \in Going : ConnSend(c)
    \/ \E p \in Pools : \E c \in NewBlockChans(p) : SetBlockDurationCh(p, c)

SpecBlock == Init /\ [][NextBlock]_vars

\* The same with any channel passed to SetBlockDurationCh: also the one
\* in use, and one that was in use before
NextBlockAny ==
    \/ Admission \/ OneShots
    \/ \E c \in Going : ConnSend(c)
    \/ \E p \in Pools, c \in {0} \cup BlockChans : SetBlockDurationCh(p, c)

SpecBlockAny == Init /\ [][NextBlockAny]_vars

\* Each Rows, Row and Tx in the hands of one goroutine, which calls the
\* methods of the object and those of the DB one after the other.
NextHold ==
    \/ Admission \/ OneShots \/ Queries
    \/ \E c \in Goroutines, ok \in BOOLEAN : Begin(c, ok)
    \/ \E h \in Live, p \in Pools : HolderConn(h, p)
    \/ \E h \in Live :
          /\ Free(h)
          /\ \/ TxCommit(h) \/ TxRollback(h)
             \/ \E r \in {"row", "eof", "err"} : RowsNext(h, r)
             \/ RowsClose(h)
             \/ \E ok \in BOOLEAN : RowScan(h, ok)
             \/ Drop(h)

SpecHold == Init /\ [][NextHold]_vars

\* Query and Begin, and the goroutines that call Next and Close of one
\* Rows, or Commit and Rollback of one Tx, at the same time.  No usage
\* timeout is set, so that cancelUsageTimeout is the empty function.
NextRace ==
    \/ Admission
    \/ \E c \in Goroutines, ok \in BOOLEAN : Query(c, ok) \/ Begin(c, ok)
    \/ \E h \in Live :
          \/ TxCommitTest(h) \/ TxCommitDeferred(h)
          \/ TxRollbackTest(h) \/ TxRollbackDeferred(h)
          \/ RowsNextTest(h) \/ RowsCloseTest(h) \/ RowsCloseRest(h)
          \/ \E r \in {"row", "eof", "err"} : RowsNextRest(h, r)
          \/ Drop(h)

SpecRace == Init /\ [][NextRace]_vars

\* One DB, opened without a token channel or with one token.
InitUsage ==
    /\ concurrency \in {0, 1}
    /\ db = [p \in Pools |-> IF p = 1 THEN OpenedDB(concurrency) ELSE ClosedDB]
    /\ callers = EmptyBag
    /\ handles = EmptyBag
    /\ stmts = {}
    /\ timers = EmptyBag

\* The usage reports: that DB with Ping and Exec holding the tokens, the
\* timer goroutines, and SetUsageTimeout called at any time.
NextUsage ==
    \/ Admission \/ OneShots \/ TimerSteps
    \/ \E p \in Pools, c \in {0} \cup UsageChans, d \in Durations :
          SetUsageTimeout(p, c, d)

SpecUsage == InitUsage /\ [][NextUsage]_vars

\* One DB, opened without a token channel.
InitDur ==
    /\ concurrency = 0
    /\ db = [p \in Pools |-> IF p = 1 THEN OpenedDB(concurrency) ELSE ClosedDB]
    /\ callers = EmptyBag
    /\ handles = EmptyBag
    /\ stmts = {}
    /\ timers = EmptyBag

\* The calls, the timer goroutines, and SetUsageTimeout called at any time
\* with one of two timeouts, or none.
NextDur ==
    \/ \E c \in Goroutines, p \in Pools : Conn(c, p)
    \/ \E c \in Goroutines : Ping(c, TRUE)
    \/ TimerSteps
    \/ \E p \in Pools, c \in {0} \cup UsageChans, d \in Durations \cup {LongDur} :
          SetUsageTimeout(p, c, d)

SpecDur == InitDur /\ [][NextDur]_vars

\* A DB with a token channel after SetUsageTimeout(c, MaxDur) was called
\* on it, c being channel 1.
InitUse ==
    /\ concurrency \in 1..MaxCap
    /\ db = [p \in Pools |->
               IF p = 1
               THEN [OpenedDB(concurrency) EXCEPT
                        !.usageTimeoutCh = 1, !.usageTimeout = MaxDur]
               ELSE ClosedDB]
    /\ callers = EmptyBag
    /\ handles = EmptyBag
    /\ stmts = {}
    /\ timers = EmptyBag

\* The tokens held under a usage timeout by transactions, from Begin to
\* Commit or Rollback, until the reports are switched off, and after.
NextUse ==
    \/ Admission \/ Transactions \/ TimerSteps
    \/ \E h \in Live : Drop(h)
    \/ \E p \in Pools : SetUsageTimeout(p, 0, MaxDur)

SpecUse == InitUse /\ [][NextUse]_vars

\* The package from its start: SetConcurrency, Open, SetMaxIdleConns, and
\* Ping and Exec on the DBs opened.
NextCfg ==
    \/ \E count \in -1..MaxCap : SetConcurrency(count)
    \/ \E p \in Pools : Open(p)
    \/ \E p \in Pools, n \in 0..MaxIdle : SetMaxIdleConns(p, n)
    \/ Admission \/ OneShots

SpecCfg == InitCfg /\ [][NextCfg]_vars

\* ------------------------------------------------------- the properties

\* The number of the objects of bag B that are in S
\* The tokens of DB p that are out: taken from db.sem by conn() and held by
\* a goroutine inside its call, or by a Rows, Row or Tx, whose release
\* function has not run.
CallerHolds(c, p) == c.rel.tok /\ c.rel.db = p /\ c.nrel = 0
HandleHolds(h, p) == h.release.tok /\ h.release.db = p /\ h.nrel = 0
Outstanding(p) ==
    BagCount(callers, {c \in Going : CallerHolds(c, p)})
    + BagCount(handles, {h \in Live : HandleHolds(h, p)})

\* The goroutines blocked in conn() on the receive from db.sem of DB p
Waiting(p) == BagCount(callers, {c \in Going : c.pc = "wait" /\ c.db = p})

\* The DBs opened with a token channel, and those opened without
Bounded == {p \in Pools : db[p].opened /\ ~SemIsNil(p)}
Unlimited == {p \in Pools : db[p].opened /\ SemIsNil(p)}

C2_BlocksOnlyBeyondCap ==
    [][\A p \in Bounded :
          /\ Waiting(p)' > Waiting(p) =>
                /\ Outstanding(p) = db[p].semCap
                /\ Outstanding(p)' = Outstanding(p)
          /\ Waiting(p)' < Waiting(p) =>
                /\ Waiting(p)' = Waiting(p) - 1
                /\ Outstanding(p)' = Outstanding(p)
                /\ db'[p].sem = db[p].sem]_vars

\* C2, its case: cap N = MaxCap, N tokens out, and one more caller waits
C2_Witness ==
    /\ db[1].semCap = MaxCap
    /\ Outstanding(1) = MaxCap
    /\ Waiting(1) = 1

\* C3 as amended: on a DB opened while the concurrency setting is zero, no
\* caller of conn() ever waits, no block duration is ever reported and the
\* function conn() returns sends no token, whatever the number of callers
\* and whatever channels and usage timeout are set (a usage-timeout report
\* may still be sent).
C3_UnlimitedNeverBlocks ==
    \A p \in Unlimited :
        /\ db[p].blockSent = 0
        /\ \A c \in Going :
              c.db = p => c.pc \notin {"wait", "send"} /\ ~c.rel.tok

\* C3, its case: NCallers goroutines are inside their calls on an
\* unlimited DB that has a block channel, and a usage report was taken
C3_Witness ==
    /\ 1 \in Unlimited
    /\ db[1].blockCh # 0
    /\ db[1].usageSent > 0
    /\ BagCount(callers, {c \in Going : c.pc = "call" /\ c.db = 1}) = NCallers

\* C3 as stated: on an unlimited DB conn() returns a function that does
\* nothing, and no report of any kind is ever sent.
C3_NoReportOfAnyKind ==
    \A p \in Unlimited :
        /\ db[p].blockSent = 0
        /\ db[p].usageSent = 0
        /\ \A c \in Going :
              c.db = p => c.pc \notin {"wait", "send"} /\ ~c.rel.tok /\ c.rel.tmr = NoTimer

\* C4: when the underlying call of Ping, Exec, Prepare, Query, Stmt.Exec,
\* Stmt.Query or Begin fails, the caller has the error only after the
\* release function ran, once: its token is in db.sem again or with
\* another holder, and with cap 1 and no other holder it is in db.sem, so
\* that the next call does not wait.
C4_FailedCallGaveTokenBack ==
    \A c \in Going :
        (c.pc = "failed" /\ c.rel.tok) =>
            /\ c.nrel = 1
            /\ db[c.db].sem + Outstanding(c.db) = db[c.db].semCap
            /\ Outstanding(c.db) = 0 => db[c.db].sem = db[c.db].semCap

\* C4, its case: cap 1, a call has failed and the token is in db.sem
C4_Witness ==
    /\ db[1].semCap = 1
    /\ db[1].sem = 1
    /\ \E c \in Going : c.pc = "failed" /\ c.rel.tok /\ c.nrel = 1

\* C5: a Rows of a successful Query holds its token until the first Next
\* that finds the end of the rows with no error, or the first Close; over
\* any calls of Next and Close the release function runs at most once;
\* and Close on a Rows that was read to its end still closes the sql.Rows.
C5_RowsReleaseOnce ==
    \A h \in Live :
        (h.kind = "rows" /\ h.release.tok) =>
            /\ h.nrel <= 1
            /\ (h.nrel = 1) <=> (h.ust = "eof" \/ h.uclosed)
            /\ (h.nrel = 1) <=> h.closed
            /\ (h.closed /\ ~h.uclosed) =>
                  ENABLED (RowsClose(h) /\ handles' = Changed(h, [h EXCEPT !.uclosed = TRUE]))

\* C5, its case: a Rows read to its end and closed after that, its one
\* token given back
C5_Witness ==
    \E h \in Live :
        /\ h.kind = "rows" /\ h.release.tok
        /\ h.ust = "eof" /\ h.uclosed /\ h.nrel = 1

\* C6: a Tx of a successful Begin holds its token until the first Commit
\* or Rollback; over any calls of Commit and Rollback the release function
\* runs exactly once, a second Commit or Rollback sending no token.
C6_TxReleaseOnce ==
    \A h \in Live :
        (h.kind = "tx" /\ h.release.tok) =>
            /\ h.nrel <= 1
            /\ (h.nrel = 1) <=> (h.ust \in {"ended", "txdone"})
            /\ (h.nrel = 1) <=> h.closed

\* C6, its case: Commit or Rollback was called again on a Tx that had
\* ended, and one token was given back
C6_Witness ==
    \E h \in Live :
        /\ h.kind = "tx" /\ h.release.tok
        /\ h.ust = "txdone" /\ h.nrel = 1

\* C7: Tx.Exec, Tx.Query, Tx.QueryRow, Tx.Prepare, Tx.Stmt and the Exec,
\* Query and QueryRow of a Stmt made by Tx.Prepare or Tx.Stmt take no
\* token and send none: such a Stmt has no db, the Rows and Row they give
\* carry dummyRelease, and the tokens out are those of Begin and Prepare
\* only, so that with cap 1 they all run while the Tx holds the one token.
C7_TxCallsTakeNoToken ==
    /\ \A s \in stmts : s.tx => s.db = 0
    /\ \A h \in Live : h.kind \in {"rows", "row"} => h.release = dummyRelease
    /\ \A p \in Bounded : db[p].sem + Outstanding(p) = db[p].semCap

\* C7, its case: cap 1, the Tx holds the token, and a Stmt of the Tx and a
\* Rows and a Row got inside the transaction are there
C7_Witness ==
    /\ db[1].semCap = 1 /\ db[1].sem = 0
    /\ \E h \in Live : h.kind = "tx" /\ h.ust = "open" /\ HandleHolds(h, 1)
    /\ \E h \in Live : h.kind \in {"rows", "row"} /\ h.ust \in {"open", "eof", "scanned"}
    /\ \E s \in stmts : s.tx

\* C8: once a DB is open no step, SetConcurrency included, changes the
\* capacity of its token channel or what MaxConns returns; a DB that is
\* opened gets the setting of that moment.
C8_OpenDBKeepsCapacity ==
    [][\A p \in Pools :
          /\ db[p].opened =>
                /\ db'[p].opened
                /\ db'[p].semCap = db[p].semCap
                /\ MaxConns(p)' = MaxConns(p)
          /\ (~db[p].opened /\ db'[p].opened) =>
                /\ db'[p].semCap = concurrency
                /\ MaxConns(p)' = concurrency]_vars

\* C8, its case: two DBs opened under different settings, and the setting
\* changed again after that
C8_Witness ==
    \E p, q \in Pools :
        /\ db[p].opened /\ db[q].opened
        /\ MaxConns(p) # MaxConns(q)
        /\ concurrency \notin {MaxConns(p), MaxConns(q)}

\* C9: a Row of QueryRow or Stmt.QueryRow on a DB with a token channel
\* gives its token back in the first Scan, whether row.Row.Scan() succeeds
\* or fails, and later Scans send no token.
C9_RowReleaseInFirstScan ==
    \A h \in Live :
        (h.kind = "row" /\ h.release.tok) =>
            /\ h.nrel <= 1
            /\ (h.nrel = 1) <=> (h.ust \in {"scanned", "scanerr", "norows", "qerrseen"})
            /\ (h.nrel = 1) <=> h.closed

\* C9, its case: a Row whose Scan failed and a Row scanned twice, each
\* with its one token given back
C9_Witness ==
    /\ \E h \in Live : h.kind = "row" /\ h.release.tok /\ h.ust = "scanerr" /\ h.nrel = 1
    /\ \E h \in Live : h.kind = "row" /\ h.release.tok /\ h.ust = "norows" /\ h.nrel = 1

\* C10 as amended: when the query behind a Row fails, QueryRow returns the
\* Row with the token still held; the token is given back by the first
\* Scan, which returns the query's error.
C10_FailedRowHoldsUntilScan ==
    \A h \in Live :
        (h.kind = "row" /\ h.release.tok) =>
            /\ h.ust = "qerr" => h.nrel = 0 /\ ~h.closed
            /\ h.ust = "qerrseen" => h.nrel = 1 /\ h.closed

\* C10, its case: with cap 1, a Row of a failed query before its Scan,
\* the token not in db.sem
C10_Witness ==
    /\ db[1].semCap = 1 /\ db[1].sem = 0
    /\ \E h \in Live : h.kind = "row" /\ HandleHolds(h, 1) /\ h.ust = "qerr"

\* C10 as stated: when the query behind a Row fails, the token is in
\* db.sem again when QueryRow returns, before any Scan.
C10_ReleasedAtQueryRow ==
    \A h \in Live :
        (h.kind = "row" /\ h.release.tok /\ h.ust = "qerr") => h.nrel = 1

\* C11: when the query of DB.Query, Stmt.Query or Tx.Query fails, no Rows
\* is given to the caller with the error: there is no Rows without a
\* sql.Rows under it.
C11_NoRowsWithError ==
    \A h \in Live : h.kind = "rows" => h.ust # "nil"

\* The goroutines whose receive from db.sem has returned and that have not
\* gone on yet, and those in the send of their report
Wakened(p) == BagCount(callers, {c \in Going : c.pc = "woken" /\ c.db = p})
Sending(p) == BagCount(callers, {c \in Going : c.pc = "send" /\ c.db = p})

\* C12: a goroutine that had to wait in conn() begins the send of one
\* duration when it has its token, if blockCh is set then, and none if it
\* is nil; only such a goroutine begins a send, so that one taking its
\* token at once sends nothing; and the reader gets one value for each
\* send, with which the sender goes on to its call.
C12_OneReportPerBlock ==
    [][\A p \in Pools :
        /\ Wakened(p)' < Wakened(p) =>
              /\ Wakened(p)' = Wakened(p) - 1
              /\ Sending(p)' = Sending(p) + (IF db[p].blockCh # 0 THEN 1 ELSE 0)
              /\ db'[p].blockSent = db[p].blockSent
        /\ Sending(p)' > Sending(p) => Wakened(p)' < Wakened(p)
        /\ Sending(p)' < Sending(p) =>
              /\ Sending(p)' = Sending(p) - 1
              /\ db'[p].blockSent = db[p].blockSent + 1
        /\ db'[p].blockSent # db[p].blockSent => Sending(p)' < Sending(p)
      ]_vars

\* C12, its case: the reader has the duration of a goroutine that waited,
\* and that goroutine is at its call with a token
C12_Witness ==
    /\ db[1].blockSent = 1
    /\ db[1].sem = 0
    /\ \E c \in Going : c.pc = "call" /\ c.rel.tok

\* C13: SetBlockDurationCh closes the channel it replaces, and no
\* goroutine of conn() ever sends its duration on a closed channel:
\* whoever is in the send has an open channel, and no send has panicked.
C13_NoSendOnClosed ==
    \A c \in Going :
        /\ c.pc # "panic"
        /\ c.pc = "send" => db[c.db].blockCh \notin db[c.db].blockClosed

\* C19: on a DB with a token channel a token given back while a caller is
\* blocked in conn() is not lost and does not lie in the channel: while
\* callers are blocked all N tokens are with holders, the token of a
\* release having gone to one of the blocked; and under a fair scheduler
\* a caller that was handed a token gets out of conn(): either such
\* callers go on for ever, or from some time on none is left.
C19_WaiterGetsReturnedToken ==
    /\ [](\A p \in Bounded :
            Waiting(p) > 0 => db[p].sem = 0 /\ Outstanding(p) = db[p].semCap)
    /\ \/ <>[](\A p \in Pools : Wakened(p) = 0)
       \/ []<><<\E c \in Going : ConnWait(c)>>_vars

\* C19, its case: a release has handed its token to one of two blocked
\* callers, the other is still blocked
C19_Witness ==
    /\ Wakened(1) > 0
    /\ Waiting(1) > 0

TimerCount(p, T(_)) ==
    BagCount(callers, {c \in Going : c.rel.db = p /\ T(c.rel.tmr)})
    + BagCount(handles, {h \in Live : h.release.db = p /\ T(h.release.tmr)})
    + BagCount(timers, {o \in BagToSet(timers) : o.db = p /\ T(o)})

InSelect(tm) == tm.st = "armed"
TimeIsUp(tm) == tm.st = "armed" /\ tm.fired # "no"
InSend(tm) == tm.st = "sending"
NumInSelect(p) == TimerCount(p, InSelect)
NumTimeIsUp(p) == TimerCount(p, TimeIsUp)
NumInSend(p) == TimerCount(p, InSend)

\* C15 as amended: an acquisition made with a usage timeout set has one
\* timer goroutine, and that goroutine sends at most one diagnostic.  It
\* begins the send only when its select takes the case of the timer, the
\* time being up, and a channel is set at that moment; the send ends the
\* goroutine and gives the reader one value; no value reaches the reader
\* in another way.  A goroutine that takes the case of the cancel sends
\* nothing.
C15_AtMostOneDiagnostic ==
    [][\A p \in Pools :
        /\ NumInSend(p)' > NumInSend(p) =>
              /\ NumInSend(p)' = NumInSend(p) + 1
              /\ NumTimeIsUp(p)' = NumTimeIsUp(p) - 1
              /\ NumInSelect(p)' = NumInSelect(p) - 1
              /\ db[p].usageTimeoutCh # 0
              /\ db'[p].usageSent = db[p].usageSent
        /\ NumInSend(p)' < NumInSend(p) =>
              /\ NumInSend(p)' = NumInSend(p) - 1
              /\ NumInSelect(p)' = NumInSelect(p)
              /\ db'[p].usageSent = db[p].usageSent + 1
        /\ db'[p].usageSent # db[p].usageSent => NumInSend(p)' < NumInSend(p)
        /\ NumInSelect(p)' > NumInSelect(p) =>
              /\ NumInSelect(p)' = NumInSelect(p) + 1
              /\ db[p].usageTimeout # 0
              /\ NumTimeIsUp(p)' = NumTimeIsUp(p)
      ]_vars

\* C15, its case: the reader has the diagnostic of a caller that is still
\* at its call
C15_Witness ==
    /\ db[1].usageSent = 1
    /\ \E c \in Going : c.pc = "call" /\ c.rel.tmr.st = "reported"

\* C15 as stated: the goroutine of a token held when the time is up sends
\* its diagnostic, and one whose token was given back before the time was
\* up sends none.
C15_OneIfHeldNoneIfReleased ==
    /\ \A c \in Going : c.rel.tmr.st # "done"
    /\ \A o \in BagToSet(timers) : o.st = "sending" => o.fired = "held"

\* C16: a timer goroutine in the send of its diagnostic sends on the
\* channel that is set, and SetUsageTimeout returns only with no
\* goroutine in a send; so no send is on a channel that a call of
\* SetUsageTimeout has replaced.
C16_NoSendOnReplacedChannel ==
    /\ [](\A p \in Pools : \A w \in UsageReaders(p) :
            Tmr(w).ch # 0 /\ Tmr(w).ch = db[p].usageTimeoutCh)
    /\ [][\A p \in Pools :
            db'[p].usageTimeoutCh # db[p].usageTimeoutCh =>
                NumInSend(p) = 0 /\ NumInSend(p)' = 0]_vars

\* C16, its case: a goroutine is sending on channel 2, which is set,
\* while a caller still at its call has a timer that found the channel
\* nil: the channel was replaced at least twice since that caller came
C16_Witness ==
    /\ db[1].usageTimeoutCh = 2
    /\ \E w \in UsageReaders(1) : Tmr(w).ch = 2
    /\ \E c \in Going : c.pc = "call" /\ c.rel.tmr.st = "done"

\* The goroutines at the underlying call of a method on DB p
AtCall(p) == BagCount(callers, {c \in Going : c.pc = "call" /\ c.db = p})

\* C17: while the channel of the usage reports is nil the stored timeout
\* is zero; a step taken then starts no timer goroutine, begins no send
\* and gives the reader nothing, the goroutines whose time is up ending
\* without a send; and a timer goroutine is started only for the caller
\* that leaves conn() in that step, a timeout and a channel being set:
\* one that came while the channel was nil has none, whatever is set
\* later.
C17_NilChannelSwitchesOff ==
    /\ [](\A p \in Pools : db[p].usageTimeoutCh = 0 => db[p].usageTimeout = 0)
    /\ [][\A p \in Pools :
            /\ db[p].usageTimeoutCh = 0 =>
                  /\ NumInSelect(p)' <= NumInSelect(p)
                  /\ NumInSend(p) = 0 /\ NumInSend(p)' = 0
                  /\ db'[p].usageSent = db[p].usageSent
            /\ NumInSelect(p)' > NumInSelect(p) =>
                  /\ AtCall(p)' = AtCall(p) + 1
                  /\ NumInSelect(p)' = NumInSelect(p) + 1
                  /\ db[p].usageTimeout # 0
          ]_vars

\* C17, its case: the channel is nil; of two callers at their calls one
\* came before, and its timer goroutine ended without a send, the other
\* came while the channel was nil and has no timer goroutine
C17_Witness ==
    /\ db[1].usageTimeoutCh = 0
    /\ \E c \in Going : c.pc = "call" /\ c.rel.tmr.st = "done"
    /\ \E c \in Going : c.pc = "call" /\ c.rel.tmr = NoTimer

\* What a goroutine and a Rows, Row or Tx are to their callers: all of
\* them but the timer goroutine
CallerView(c) == [c EXCEPT !.rel.tmr = NoTimer]
HandleView(h) == [h EXCEPT !.release.tmr = NoTimer]

\* a step of a timer goroutine whose time is up or has been: the value of
\* time.After arrives, the select takes its case, the report is taken
ExpiryStep ==
    \E w \in TimerPlaces : TimerFire(w) \/ TimerExpire(w) \/ TimerSend(w)

\* Commit or Rollback gives back the token of a Tx whose timer goroutine
\* is past its select
LateRelease(h) ==
    /\ h.kind = "tx" /\ ~h.closed /\ h.release.tok
    /\ h.release.tmr.st \in {"sending", "done", "reported"}
    /\ TxCommit(h) \/ TxRollback(h)

\* C18: a step of a timer goroutine whose time is up, with a report or
\* without, leaves db.sem, the tokens that are out, the callers and
\* every Rows, Row and Tx as they were; and the Commit or Rollback that
\* comes after it still gives back one token, to db.sem or to a
\* goroutine blocked in conn(); the tokens out and those in db.sem are
\* cap(db.sem) throughout.
C18_ExpiryLeavesHolderAlone ==
    /\ [](\A p \in Bounded : db[p].sem + Outstanding(p) = db[p].semCap)
    /\ [][ExpiryStep =>
            /\ \A p \in Pools :
                  /\ db'[p].sem = db[p].sem
                  /\ Outstanding(p)' = Outstanding(p)
            /\ BagOfAll(CallerView, callers') = BagOfAll(CallerView, callers)
            /\ BagOfAll(HandleView, handles') = BagOfAll(HandleView, handles)
          ]_vars
    /\ [][\A h \in Live :
            LateRelease(h) =>
                LET p == h.release.db IN
                /\ db'[p].sem + Wakened(p)' = db[p].sem + Wakened(p) + 1
                /\ Outstanding(p)' + Waiting(p)' = Outstanding(p) + Waiting(p) - 1
          ]_vars

\* C18, its case: a Tx that holds the only token has not been ended, the
\* reader has the report of its timer goroutine, and a caller is blocked
\* in conn()
C18_Witness ==
    /\ db[1].semCap = 1 /\ db[1].sem = 0
    /\ Waiting(1) > 0
    /\ \E h \in Live :
          /\ h.kind = "tx" /\ ~h.closed /\ h.release.tok
          /\ h.release.tmr.st = "reported"

\* C20: the sql.DB of a DB with a token channel was given the capacity of
\* the channel as its limit of idle connections by Open and is given
\* nothing after that, SetMaxIdleConns leaving it alone; the sql.DB of a
\* DB without a token channel is given every n of SetMaxIdleConns, and
\* nothing by Open.
C20_IdleLimitOfBoundedDBStays ==
    /\ [](\A p \in Bounded : db[p].maxIdle = db[p].semCap)
    /\ [][\A p \in Pools :
            /\ \A n \in 0..MaxIdle :
                  SetMaxIdleConns(p, n) =>
                      db'[p].maxIdle = IF SemIsNil(p) THEN n ELSE db[p].maxIdle
            /\ (~db[p].opened /\ db'[p].opened /\ db'[p].semCap = 0) =>
                  db'[p].maxIdle = -1
          ]_vars

\* C20, its case: a DB with a token channel that has its capacity as the
\* limit, beside a DB without one that was given a limit by
\* SetMaxIdleConns
C20_Witness ==
    \E p \in Bounded, q \in Unlimited :
        /\ db[p].maxIdle = db[p].semCap
        /\ db[q].maxIdle = MaxIdle

\* C22: a Rows whose iteration ended with an error keeps its token and
\* its closed flag unset through that Next and every later one; Close,
\* and nothing else, gives the token back.
C22_FailedNextKeepsToken ==
    \A h \in Live :
        (h.kind = "rows" /\ h.release.tok /\ h.ust = "err") =>
            /\ h.closed <=> h.uclosed
            /\ h.nrel = IF h.uclosed THEN 1 ELSE 0

\* C22, its case: the Rows that holds the only token has had its Next
\* end with an error and has not been closed, and a caller is blocked
C22_Witness ==
    /\ db[1].semCap = 1 /\ db[1].sem = 0
    /\ Waiting(1) > 0
    /\ \E h \in Live :
          /\ h.kind = "rows" /\ h.release.tok /\ h.ust = "err"
          /\ ~h.closed /\ h.nrel = 0

\* C23: on a DB with a token channel the tokens in db.sem and the tokens
\* that are out are cap(db.sem) in every state; so whoever holds a token
\* finds room for it in db.sem, or a goroutine blocked in conn() to take
\* it, and with no token out db.sem is full again.
C23_TokensConserved ==
    \A p \in Bounded :
        /\ db[p].sem + Outstanding(p) = db[p].semCap
        /\ \A c \in Going : CallerHolds(c, p) => CanRelease(c.rel)
        /\ \A h \in Live : HandleHolds(h, p) => CanRelease(h.release)
        /\ Outstanding(p) = 0 => db[p].sem = db[p].semCap

\* C23, its case: a Tx and a Rows have given their tokens back, nobody is
\* in a call, and db.sem has its two tokens
C23_Witness ==
    /\ db[1].semCap = 2 /\ db[1].sem = 2
    /\ callers = EmptyBag
    /\ \E h \in Live : h.kind = "tx" /\ h.release.tok /\ h.nrel = 1
    /\ \E h \in Live : h.kind = "rows" /\ h.release.tok /\ h.nrel = 1

NumInSelectFor(p, d) == TimerCount(p, LAMBDA tm : tm.st = "armed" /\ tm.dur = d)
NumCancelled(p) == BagCount(timers, {o \in BagToSet(timers) : o.db = p /\ o.st = "armed"})
NumInSendOn(p, c) == TimerCount(p, LAMBDA tm : tm.st = "sending" /\ tm.ch = c)

\* C21: a step that changes the channel or the timeout of a DB leaves
\* every timer goroutine as it is, in its select with the timeout it was
\* started with.  A goroutine leaves its select only by the cancel its own
\* release function sent, or with its own time up; then it sends on the
\* channel that is set at that step, if one is, and nothing otherwise.  A
\* goroutine enters the select with the timeout set at that step.
C21_PendingTimerKeepsItsTimeout ==
    [][\A p \in {q \in Pools : db[q].opened} :
        /\ (db'[p].usageTimeout # db[p].usageTimeout
            \/ db'[p].usageTimeoutCh # db[p].usageTimeoutCh) =>
              UNCHANGED <<callers, handles, timers>>
        /\ \A d \in Durations \cup {LongDur} :
              /\ NumInSelectFor(p, d)' > NumInSelectFor(p, d) =>
                    /\ NumInSelectFor(p, d)' = NumInSelectFor(p, d) + 1
                    /\ d = db[p].usageTimeout
              /\ NumInSelectFor(p, d)' < NumInSelectFor(p, d) =>
                    /\ NumInSelectFor(p, d)' = NumInSelectFor(p, d) - 1
                    /\ \/ /\ NumCancelled(p)' = NumCancelled(p) - 1
                          /\ NumInSend(p)' = NumInSend(p)
                       \/ /\ NumTimeIsUp(p)' = NumTimeIsUp(p) - 1
                          /\ IF db[p].usageTimeoutCh # 0
                             THEN NumInSendOn(p, db[p].usageTimeoutCh)' =
                                     NumInSendOn(p, db[p].usageTimeoutCh) + 1
                             ELSE NumInSend(p)' = NumInSend(p)
      ]_vars

\* C21, its case: a goroutine started with one timeout and channel is
\* sending on another channel, set with another timeout after its start
C21_Witness ==
    /\ db[1].usageTimeoutCh = 2
    /\ db[1].usageTimeout = LongDur
    /\ \E c \in Going :
          c.pc = "call" /\ c.rel.tmr.st = "sending"
          /\ c.rel.tmr.dur = MaxDur /\ c.rel.tmr.ch = 2

\* C25 as stated: with Commit and Rollback of one Tx, or Next and Close
\* of one Rows, called at the same time, the release function of the
\* object runs at most once, and the tokens in db.sem with those held are
\* never more than the DB was opened with.
C25_ReleaseOnceUnderRace ==
    /\ \A h \in Live : h.nrel <= 1
    /\ \A p \in Bounded : db[p].sem + Outstanding(p) <= db[p].semCap

\* Every token of DB p is with a Rows, Row or Tx whose owner is blocked
\* in the receive from db.sem of a further call on p.
Deadlocked(p) ==
    /\ db[p].semCap > 0
    /\ db[p].sem = 0
    /\ \A c \in Going : ~CallerHolds(c, p)
    /\ \A h \in Live :
          HandleHolds(h, p) =>
              /\ ~Free(h)
              /\ \A c \in Going : c.own = h => (c.pc = "wait" /\ c.db = p)

\* C26: on a DB with N tokens, once the N goroutines that each hold a
\* token through an open Rows, Row or Tx are all blocked in conn() of a
\* further call, nothing changes that: the tokens stay with the objects,
\* db.sem stays empty and the goroutines stay blocked, whatever the other
\* goroutines do.
C26_HoldersBlockForEver ==
    [][\A p \in Pools : Deadlocked(p) => Deadlocked(p)']_vars

\* C26, its case: two tokens, held by a transaction and an unread Rows,
\* the two owners blocked in conn()
C26_Witness ==
    /\ db[1].semCap = 2
    /\ Deadlocked(1)
    /\ \E h \in Live : h.kind = "tx" /\ HandleHolds(h, 1)
    /\ \E h \in Live : h.kind = "rows" /\ HandleHolds(h, 1)
    /\ BagCount(callers, {c \in Going : c.pc = "wait" /\ c.own # NoHandle}) = 2

====
